---- MODULE Spec2Model ----
\* Model of FGitSourceControlMenu (GitSourceControlMenu.cpp): the four menu
\* requests Push / Sync / Revert / Refresh, the shared completion callback,
\* and the stash / unlink / reload protocol around them.
\*
\* The menu object's members are state.  The collaborators it reads (the
\* editor's dirty list, the files on disk, the output of git commands, the
\* answers to dialogs) are inputs drawn at the point where the code reads them.
EXTENDS Integers, Sequences, FiniteSets, TLC

\* ---------------------------------------------------------------- bounds
MaxOutstanding == 2
MaxChangedFiles == 2

\* ------------------------------------------------------------- the world
Packages == {"a", "b"}
NonPackageFiles == {"t"}
Files == Packages \cup NonPackageFiles
StatusMarkers == {" M", " A", "M ", " D"}
OperationNames == {"Sync", "Push", "Revert", "Refresh"}
RemoteUrls == {"", "https://example.org/repo.git"}

VARIABLES
    OperationInProgressNotification, \* TWeakPtr<SNotificationItem>: IsValid()
    bStashMadeBeforeSync,            \* member flag
    PackagesToReload,                \* TArray<UPackage*>: [pkg, live]
    pkgState,                        \* asset host: unloaded/loaded/detached
    outstanding,                     \* operations dispatched, callback not yet run
    RemoteUrl,                       \* provider: Provider.GetRemoteUrl()
    call,                            \* the handler that ran last, and what it was given
    events                           \* what that handler did, in order

vars == <<OperationInProgressNotification, bStashMadeBeforeSync, PackagesToReload,
          pkgState, outstanding, RemoteUrl, call, events>>

menuVars == <<OperationInProgressNotification, bStashMadeBeforeSync, PackagesToReload>>

\* ------------------------------------------------------------- helpers
Range(s) == {s[i] : i \in 1..Len(s)}

RECURSIVE SeqsUpTo(_, _)
SeqsUpTo(S, n) ==
    IF n = 0 THEN {<<>>}
    ELSE LET shorter == SeqsUpTo(S, n - 1)
         IN  shorter \cup {Append(s, x) : s \in shorter, x \in S}

AnyOf(evs, wanted) == \E i \in 1..Len(evs) : evs[i] \in wanted

NoOp == [name |-> "none", stashed |-> FALSE, bStashFailed |-> FALSE]

\* captured: the packages the handler's UnlinkPackages call returned;
\* bStatusOk / bModified: what the status command of its stash step returned;
\* absent / reloaded / unloaded: what a ReloadPackages run inside the handler
\* found missing on disk and handed to the editor's reload and unload
Call(fn, op, bDirtyLeft) ==
    [fn |-> fn, op |-> op, bDirtyLeft |-> bDirtyLeft, captured |-> {},
     bStatusOk |-> FALSE, bModified |-> FALSE,
     absent |-> {}, reloaded |-> {}, unloaded |-> {}]

Resident == {p \in Packages : pkgState[p] # "unloaded"}

Detached == {p \in Packages : pkgState[p] = "detached"}

\* the operations in flight, counted; an operation is the FSync / FGitPush /
\* FRevert / FUpdateStatus object handed to Provider.Execute, together with
\* whether a stash was created for it and whether creating one failed
OperationKinds == {[name |-> n, stashed |-> FALSE, bStashFailed |-> FALSE] : n \in OperationNames}
                     \cup {[name |-> "Sync", stashed |-> TRUE, bStashFailed |-> FALSE],
                           [name |-> "Sync", stashed |-> FALSE, bStashFailed |-> TRUE]}

NumOutstanding ==
    LET RECURSIVE Sum(_)
        Sum(S) == IF S = {} THEN 0
                  ELSE LET k == CHOOSE x \in S : TRUE
                       IN  outstanding[k] + Sum(S \ {k})
    IN  Sum(OperationKinds)

\* result of GitSourceControlUtils::RunCommand: success flag and stdout lines
RunCommandResults(outputs) ==
    {[ok |-> TRUE, out |-> o] : o \in outputs} \cup {[ok |-> FALSE, out |-> <<>>]}

\* "diff --name-only" and "status --porcelain" list each path once, in path order
FileOrder == <<"a", "b", "t">>

InPathOrder(paths) ==
    \A i, j \in 1..Len(paths) :
        i < j => \E m, n \in 1..Len(FileOrder) :
                    m < n /\ FileOrder[m] = paths[i] /\ FileOrder[n] = paths[j]

DiffOutputs == {s \in SeqsUpTo(Files, MaxChangedFiles) : InPathOrder(s)}
StatusLines == {[marker |-> m, path |-> f] : m \in StatusMarkers, f \in Packages}
StatusOutputs ==
    {s \in SeqsUpTo(StatusLines, MaxChangedFiles) :
        InPathOrder([i \in 1..Len(s) |-> s[i].path])}

\* ------------------------------------------------------------------ Init
InitStashFlag == FALSE

Init ==
    /\ OperationInProgressNotification = FALSE
    /\ bStashMadeBeforeSync = InitStashFlag
    /\ PackagesToReload = <<>>
    /\ pkgState = [p \in Packages |-> "unloaded"]
    /\ outstanding = [k \in OperationKinds |-> 0]
    /\ RemoteUrl \in RemoteUrls
    /\ call = Call("none", NoOp, FALSE)
    /\ events = <<>>

\* ------------------------------------------- the editor (asset host)
\* The editor runs one handler at a time on its main thread: a handler starts
\* only after the previous one has returned.
InEditorLoop == call.fn = "none"

\* the handler that ran has returned: there is no current handler any more
ReturnToEditor ==
    /\ ~InEditorLoop
    /\ call' = Call("none", NoOp, FALSE)
    /\ events' = <<>>
    /\ UNCHANGED <<menuVars, pkgState, outstanding, RemoteUrl>>

\* The user adds a remote to the repository or removes it (outside the editor).
RemoteChanged ==
    /\ InEditorLoop
    /\ RemoteUrl' \in RemoteUrls \ {RemoteUrl}
    /\ UNCHANGED <<menuVars, pkgState, outstanding, call, events>>

\* The user opens an asset: the package becomes resident, its loader attached.
EditorLoadPackage ==
    \E p \in Packages :
        /\ InEditorLoop
        /\ pkgState[p] = "unloaded"
        /\ pkgState' = [pkgState EXCEPT ![p] = "loaded"]
        /\ call' = Call("EditorLoadPackage", NoOp, FALSE)
        /\ events' = <<>>
        /\ UNCHANGED <<menuVars, outstanding, RemoteUrl>>

\* ------------------------------------------------- FGitSourceControlMenu
\* variant: the remote URL is not looked at
HaveRemoteUrl_Always == TRUE

\* FCanExecuteAction of the Push and Sync entries
HaveRemoteUrl == RemoteUrl # ""

\* FCanExecuteAction() of the Revert and Refresh entries: unbound, always allowed
CanExecuteAlways == TRUE

\* variant: the busy check never rejects
RequestRejected_Never == FALSE

\* the busy check that opens every request handler
RequestRejected == OperationInProgressNotification

\* FPackageName::TryConvertFilenameToLongPackageName: only content files convert
TryConvertFilenameToLongPackageName(f) == f \in Packages

\* variant: the editor's answer is returned without the re-check
SaveDirtyPackages_NoRecheck(bSavedByEditor, stillDirty) == bSavedByEditor

\* bSaved as returned by SaveDirtyPackages(): the editor's answer, then the re-check
SaveDirtyPackages(bSavedByEditor, stillDirty) ==
    IF bSavedByEditor THEN stillDirty = {} ELSE FALSE

\* what the editor's save dialog can answer for the dirty packages d:
\* (bSaved, packages written); with nothing dirty there is no dialog
SaveDialogOutcomes(d) ==
    IF d = {} THEN {[bSaved |-> TRUE, saved |-> {}]}
    ELSE {[bSaved |-> b, saved |-> s] : b \in BOOLEAN, s \in SUBSET d}

\* every way the save step of a Sync can end, for every set of dirty packages
SaveSteps ==
    UNION {{[bSaved |-> SaveDirtyPackages(o.bSaved, d \ o.saved),
             prompted |-> d # {},
             bDirtyLeft |-> d \ o.saved # {}] : o \in SaveDialogOutcomes(d)} :
              d \in SUBSET Resident}

\* ChangedFiles: the diff lines, then the status lines with a " M" or " A" prefix
ChangedFiles(diffOut, statusOut) ==
    LET Keep(l) == l.marker = " M" \/ l.marker = " A"
        kept == SelectSeq(statusOut, Keep)
    IN  diffOut \o [i \in 1..Len(kept) |-> kept[i].path]

PackagesToUnlink(changed) == SelectSeq(changed, TryConvertFilenameToLongPackageName)

PackageOrder == <<"a", "b">>

\* variant: only the first package file found is listed
ListAllPackages_FirstOnly(disk) ==
    LET OnDisk(n) == n \in disk
        found == SelectSeq(PackageOrder, OnDisk)
    IN  IF found = <<>> THEN <<>> ELSE <<Head(found)>>

\* FindPackagesInDirectory: the package files on disk, in directory order

ListAllPackages(disk) ==
    LET OnDisk(n) == n \in disk
    IN  SelectSeq(SelectSeq(PackageOrder, OnDisk), TryConvertFilenameToLongPackageName)

\* variant: FindPackage is taken to find every name
UnlinkPackages_NoResidencyCheck(InPackageNames, state) ==
    [LoadedPackages |-> [i \in 1..Len(InPackageNames) |->
                            [pkg |-> InPackageNames[i], live |-> TRUE]],
     state |-> [p \in Packages |->
                  IF p \in Range(InPackageNames) THEN "detached" ELSE state[p]]]

\* every package found resident is captured and has its loader reset (a package
\* not yet fully loaded is fully loaded first, which leaves it resident)
UnlinkPackages(InPackageNames, state) ==
    LET IsLoaded(n) == state[n] # "unloaded"
        found == SelectSeq(InPackageNames, IsLoaded)
    IN  [LoadedPackages |-> [i \in 1..Len(found) |-> [pkg |-> found[i], live |-> TRUE]],
         state |-> [p \in Packages |->
                      IF p \in Range(found) THEN "detached" ELSE state[p]]]

\* variant: the list is left as it is, nothing is reloaded or unloaded
ReloadPackages_Skipped(InPackagesToReload, state, disk) ==
    [InPackagesToReload |-> InPackagesToReload,
     absent |-> {x.pkg : x \in Range(InPackagesToReload)} \ disk,
     reloaded |-> <<>>,
     unloaded |-> <<>>,
     state |-> state]

\* variant: no handle is removed for a missing file, every one is reloaded
ReloadPackages_NoFileCheck(InPackagesToReload, state, disk) ==
    LET reloaded == {x.pkg : x \in {y \in Range(InPackagesToReload) : y.live}}
    IN  [InPackagesToReload |->
             [i \in 1..Len(InPackagesToReload) |->
                 [pkg |-> InPackagesToReload[i].pkg, live |-> FALSE]],
         absent |-> {x.pkg : x \in Range(InPackagesToReload)} \ disk,
         reloaded |-> InPackagesToReload,
         unloaded |-> <<>>,
         state |-> [p \in Packages |-> IF p \in reloaded THEN "loaded" ELSE state[p]]]

\* a handle stops being live when its package object is reloaded or unloaded;
\* absent: the packages of the list whose file FileExists did not find
ReloadPackages(InPackagesToReload, state, disk) ==
    LET Gone(x) == x.pkg \notin disk
        Kept(x) == x.pkg \in disk
        PackagesToUnload == SelectSeq(InPackagesToReload, Gone)
        remaining == SelectSeq(InPackagesToReload, Kept)
        reloaded == {x.pkg : x \in {y \in Range(remaining) : y.live}}
        unloaded == {x.pkg : x \in {y \in Range(PackagesToUnload) : y.live}}
    IN  [InPackagesToReload |->
             [i \in 1..Len(remaining) |-> [pkg |-> remaining[i].pkg, live |-> FALSE]],
         absent |-> {x.pkg : x \in Range(InPackagesToReload)} \ disk,
         reloaded |-> remaining,
         unloaded |-> PackagesToUnload,
         state |-> [p \in Packages |->
                      IF p \in reloaded THEN "loaded"
                      ELSE IF p \in unloaded THEN "unloaded" ELSE state[p]]]

\* the handler's record, with what its UnlinkPackages call returned
Unlinked(c, unlink) ==
    [c EXCEPT !.captured = {x.pkg : x \in Range(unlink.LoadedPackages)}]

\* the handler's record, with what the status command of its stash step returned
StatusSeen(c, stash) ==
    [c EXCEPT !.bStatusOk = stash.bStatusOk, !.bModified = stash.bModified]

\* the handler's record, with what its ReloadPackages run did
Reconciled(c, reload) ==
    [c EXCEPT !.absent = reload.absent,
              !.reloaded = {x.pkg : x \in Range(reload.reloaded)},
              !.unloaded = {x.pkg : x \in Range(reload.unloaded)}]

\* variant: the prompt is shown whatever the status command returned
StashAwayAnyModifications_PromptAlways(status, Choice, bStashCommandOk, flag) ==
    LET seen == [bStatusOk |-> status.ok, bModified |-> Len(status.out) > 0] IN
    IF Choice = "Ok"
    THEN seen @@ [bStashOk |-> TRUE, flag |-> bStashCommandOk, created |-> bStashCommandOk,
                  ev |-> <<"StashStatus", "StashPrompt_Ok">> \o
                         (IF bStashCommandOk THEN <<"StashSave_Ok">>
                          ELSE <<"StashSave_Fail", "Warn_StashFailed">>)]
    ELSE seen @@ [bStashOk |-> FALSE, flag |-> flag, created |-> FALSE,
                  ev |-> <<"StashStatus", "StashPrompt_Cancel">>]

\* variant: declining the stash prompt does not reset bStashOk
StashAwayAnyModifications_DeclineIgnored(status, Choice, bStashCommandOk, flag) ==
    LET seen == [bStatusOk |-> status.ok, bModified |-> Len(status.out) > 0] IN
    IF status.ok /\ Len(status.out) > 0
    THEN IF Choice = "Ok"
         THEN seen @@ [bStashOk |-> TRUE, flag |-> bStashCommandOk,
                       created |-> bStashCommandOk,
                       ev |-> <<"StashStatus", "StashPrompt_Ok">> \o
                              (IF bStashCommandOk THEN <<"StashSave_Ok">>
                               ELSE <<"StashSave_Fail", "Warn_StashFailed">>)]
         ELSE seen @@ [bStashOk |-> TRUE, flag |-> flag, created |-> FALSE,
                       ev |-> <<"StashStatus", "StashPrompt_Cancel">>]
    ELSE seen @@ [bStashOk |-> TRUE, flag |-> flag, created |-> FALSE,
                  ev |-> <<"StashStatus">>]

\* bStatusOk / bModified: what the status command returned (success, and at
\* least one line); bStashOk: the return value; flag: bStashMadeBeforeSync
\* afterwards; created: a stash was made; ev: what was run and shown
StashAwayAnyModifications(status, Choice, bStashCommandOk, flag) ==
    LET seen == [bStatusOk |-> status.ok, bModified |-> Len(status.out) > 0] IN
    IF status.ok /\ Len(status.out) > 0
    THEN IF Choice = "Ok"
         THEN seen @@ [bStashOk |-> TRUE, flag |-> bStashCommandOk,
                       created |-> bStashCommandOk,
                       ev |-> <<"StashStatus", "StashPrompt_Ok">> \o
                              (IF bStashCommandOk THEN <<"StashSave_Ok">>
                               ELSE <<"StashSave_Fail", "Warn_StashFailed">>)]
         ELSE seen @@ [bStashOk |-> FALSE, flag |-> flag, created |-> FALSE,
                       ev |-> <<"StashStatus", "StashPrompt_Cancel">>]
    ELSE seen @@ [bStashOk |-> TRUE, flag |-> flag, created |-> FALSE,
                  ev |-> <<"StashStatus">>]

\* every way the stash step of a Sync can end, for either value of the flag
StashSteps ==
    [flag \in BOOLEAN |->
        {StashAwayAnyModifications(st, ch, ok, flag) :
            st \in RunCommandResults(StatusOutputs), ch \in {"Ok", "Cancel"},
            ok \in BOOLEAN}]

ReApplyStashedModifications(flag, bUnstashOk) ==
    IF flag
    THEN IF bUnstashOk THEN <<"StashPop_Ok">>
         ELSE <<"StashPop_Fail", "Warn_UnstashFailed">>
    ELSE <<>>

\* AddNotification may hand back an invalid pointer
DisplayInProgressNotification(valid, bCreated) ==
    IF ~valid THEN bCreated ELSE valid

\* Provider.Execute can only succeed while the model has room for the operation
ExecuteResults ==
    IF NumOutstanding < MaxOutstanding THEN {"Succeeded", "Failed"} ELSE {"Failed"}

Dispatched(op) == [outstanding EXCEPT ![op] = @ + 1]

Rejected(fn, name) ==
    /\ InEditorLoop
    /\ RequestRejected
    /\ call' = Call(fn, [name |-> name, stashed |-> FALSE, bStashFailed |-> FALSE], FALSE)
    /\ events' = <<"Warn_InProgress">>
    /\ UNCHANGED <<menuVars, pkgState, outstanding>>

\* Push and Refresh share one body; AddResults is what AddNotification can return
DispatchOnly(fn, name, AddResults) ==
    LET op == [name |-> name, stashed |-> FALSE, bStashFailed |-> FALSE] IN
    \/ Rejected(fn, name)
    \/ /\ InEditorLoop
       /\ ~RequestRejected
       /\ \E Result \in ExecuteResults :
            /\ call' = Call(fn, op, FALSE)
            /\ IF Result = "Succeeded"
               THEN /\ outstanding' = Dispatched(op)
                    /\ \E bCreated \in AddResults :
                         OperationInProgressNotification' =
                            DisplayInProgressNotification(OperationInProgressNotification,
                                                          bCreated)
                    /\ events' = <<"Execute_Ok", "DisplayInProgress">>
               ELSE /\ events' = <<"Execute_Fail", "FailureNotification">>
                    /\ UNCHANGED <<OperationInProgressNotification, outstanding>>
            /\ UNCHANGED <<bStashMadeBeforeSync, PackagesToReload, pkgState>>

\* A menu entry runs its handler only while its FCanExecuteAction allows it.
PushClicked ==
    /\ HaveRemoteUrl
    /\ DispatchOnly("PushClicked", "Push", BOOLEAN)
    /\ UNCHANGED RemoteUrl

RefreshClicked ==
    /\ CanExecuteAlways
    /\ DispatchOnly("RefreshClicked", "Refresh", BOOLEAN)
    /\ UNCHANGED RemoteUrl

\* the package names a Sync can resolve from the diff and status output
ResolvedPackagesToUnlink ==
    {PackagesToUnlink(ChangedFiles(r.d.out, r.s.out)) :
        r \in {x \in [d : RunCommandResults(DiffOutputs),
                      s : RunCommandResults(StatusOutputs)] :
                  Len(x.d.out) + Len(x.s.out) <= MaxChangedFiles}}

SyncRequest(AddResults) ==
    \/ Rejected("SyncClicked", "Sync")
    \/ /\ InEditorLoop
       /\ ~RequestRejected
       /\ \E save \in SaveSteps :
          LET evSave == IF save.prompted THEN <<"SavePrompt">> ELSE <<>> IN
          IF ~save.bSaved
          THEN /\ call' = Call("SyncClicked", [name |-> "Sync", stashed |-> FALSE, bStashFailed |-> FALSE],
                               save.bDirtyLeft)
               /\ events' = evSave \o <<"Warn_SaveBeforeSync">>
               /\ UNCHANGED <<menuVars, pkgState, outstanding>>
          ELSE
          \E unlink \in {UnlinkPackages(names, pkgState) : names \in ResolvedPackagesToUnlink},
             stash \in StashSteps[bStashMadeBeforeSync] :
          LET op == [name |-> "Sync", stashed |-> stash.created,
                     bStashFailed |-> AnyOf(stash.ev, {"StashSave_Fail"})]
              rec == StatusSeen(Unlinked(Call("SyncClicked", op, save.bDirtyLeft),
                                         unlink), stash)
              evHead == evSave \o <<"Diff", "Status", "UnlinkPackages">> \o stash.ev
          IN
          /\ bStashMadeBeforeSync' = stash.flag
          /\ IF ~stash.bStashOk
             THEN /\ call' = rec
                  /\ events' = evHead \o <<"Warn_StashBeforeSync">>
                  /\ PackagesToReload' = unlink.LoadedPackages
                  /\ pkgState' = unlink.state
                  /\ UNCHANGED <<OperationInProgressNotification, outstanding>>
             ELSE \E Result \in ExecuteResults :
                  IF Result = "Succeeded"
                  THEN /\ call' = rec
                       /\ events' = evHead \o <<"Execute_Ok", "DisplayInProgress">>
                       /\ outstanding' = Dispatched(op)
                       /\ \E bCreated \in AddResults :
                            OperationInProgressNotification' =
                               DisplayInProgressNotification(
                                  OperationInProgressNotification, bCreated)
                       /\ PackagesToReload' = unlink.LoadedPackages
                       /\ pkgState' = unlink.state
                  ELSE \E reload \in {ReloadPackages(unlink.LoadedPackages,
                                                      unlink.state, disk) :
                                          disk \in SUBSET Packages} :
                           /\ call' = Reconciled(rec, reload)
                           /\ events' = evHead \o <<"Execute_Fail", "FailureNotification",
                                                    "ReloadPackages">>
                           /\ PackagesToReload' = reload.InPackagesToReload
                           /\ pkgState' = reload.state
                           /\ UNCHANGED <<OperationInProgressNotification, outstanding>>

\* variant: the answer to the revert prompt is not looked at
RevertConfirmed_Always(Choice) == TRUE

\* the answer to "Revert all modifications of the working tree?"
RevertConfirmed(Choice) == Choice = "Ok"

SyncClicked ==
    /\ HaveRemoteUrl
    /\ SyncRequest(BOOLEAN)
    /\ UNCHANGED RemoteUrl

RevertRequest(AddResults) ==
    \/ Rejected("RevertClicked", "Revert")
    \/ /\ InEditorLoop
       /\ ~RequestRejected
       /\ \E Choice \in {"Ok", "Cancel"} :
          LET op == [name |-> "Revert", stashed |-> FALSE, bStashFailed |-> FALSE] IN
          IF ~RevertConfirmed(Choice)
          THEN /\ call' = Call("RevertClicked", op, FALSE)
               /\ events' = <<"RevertPrompt_Cancel">>
               /\ UNCHANGED <<menuVars, pkgState, outstanding>>
          ELSE
          \E step \in {[unlink |-> UnlinkPackages(ListAllPackages(disk), pkgState),
                         reload |-> ReloadPackages(
                             UnlinkPackages(ListAllPackages(disk), pkgState).LoadedPackages,
                             UnlinkPackages(ListAllPackages(disk), pkgState).state, disk)] :
                           disk \in SUBSET Packages},
             Result \in ExecuteResults :
          LET unlink == step.unlink
              reload == step.reload
              rec == Unlinked(Call("RevertClicked", op, FALSE), unlink)
              evHead == <<"RevertPrompt_" \o Choice, "UnlinkPackages">>
          IN
          /\ UNCHANGED bStashMadeBeforeSync
          /\ IF Result = "Succeeded"
             THEN /\ call' = rec
                  /\ events' = evHead \o <<"Execute_Ok", "DisplayInProgress">>
                  /\ outstanding' = Dispatched(op)
                  /\ \E bCreated \in AddResults :
                       OperationInProgressNotification' =
                          DisplayInProgressNotification(OperationInProgressNotification,
                                                        bCreated)
                  /\ PackagesToReload' = unlink.LoadedPackages
                  /\ pkgState' = unlink.state
             ELSE /\ call' = Reconciled(rec, reload)
                  /\ events' = evHead \o <<"Execute_Fail", "FailureNotification",
                                           "ReloadPackages">>
                  /\ PackagesToReload' = reload.InPackagesToReload
                  /\ pkgState' = reload.state
                  /\ UNCHANGED <<OperationInProgressNotification, outstanding>>

RevertClicked ==
    /\ CanExecuteAlways
    /\ RevertRequest(BOOLEAN)
    /\ UNCHANGED RemoteUrl

\* variant: every completed operation is treated as a Sync or Revert
IsSyncOrRevert_Any(InOperation) == TRUE

\* the test that guards the unstash and reload of the completion callback
IsSyncOrRevert(InOperation) == InOperation.name \in {"Sync", "Revert"}

CompletionSteps_ReloadFirst(evRemove, evUnstash, evResult) ==
    evRemove \o <<"ReloadPackages">> \o evUnstash \o evResult

\* the order of the callback's calls when the operation is a Sync or a Revert
CompletionSteps(evRemove, evUnstash, evResult) ==
    evRemove \o evUnstash \o <<"ReloadPackages">> \o evResult

OnSourceControlOperationComplete ==
    \E InOperation \in {k \in OperationKinds : outstanding[k] > 0},
       InResult \in {"Succeeded", "Failed"} :
    LET evRemove == IF OperationInProgressNotification
                    THEN <<"RemoveInProgress">> ELSE <<>>
        evResult == IF InResult = "Succeeded" THEN <<"SuccessNotification">>
                    ELSE <<"FailureNotification">>
    IN
    /\ InEditorLoop
    /\ UNCHANGED RemoteUrl
    /\ outstanding' = [outstanding EXCEPT ![InOperation] = @ - 1]
    /\ OperationInProgressNotification' = FALSE
    /\ UNCHANGED bStashMadeBeforeSync
    /\ IF IsSyncOrRevert(InOperation)
       THEN \E reload \in {ReloadPackages(PackagesToReload, pkgState, disk) :
                               disk \in SUBSET Packages},
               bUnstashOk \in BOOLEAN :
                /\ call' = Reconciled(Call("OnSourceControlOperationComplete",
                                            InOperation, FALSE), reload)
                /\ events' = CompletionSteps(evRemove,
                                  ReApplyStashedModifications(bStashMadeBeforeSync,
                                                              bUnstashOk),
                                  evResult)
                /\ PackagesToReload' = reload.InPackagesToReload
                /\ pkgState' = reload.state
       ELSE /\ call' = Call("OnSourceControlOperationComplete", InOperation, FALSE)
            /\ events' = evRemove \o evResult
            /\ UNCHANGED <<PackagesToReload, pkgState>>

Next ==
    \/ EditorLoadPackage
    \/ PushClicked
    \/ SyncClicked
    \/ RevertClicked
    \/ RefreshClicked
    \/ OnSourceControlOperationComplete
    \/ ReturnToEditor
    \/ RemoteChanged

Spec == Init /\ [][Next]_vars

\* The same program in an editor whose notification manager always hands back
\* a valid notification.
PushClickedShown ==
    /\ HaveRemoteUrl
    /\ DispatchOnly("PushClicked", "Push", {TRUE})
    /\ UNCHANGED RemoteUrl

RefreshClickedShown ==
    /\ CanExecuteAlways
    /\ DispatchOnly("RefreshClicked", "Refresh", {TRUE})
    /\ UNCHANGED RemoteUrl

SyncClickedShown ==
    /\ HaveRemoteUrl
    /\ SyncRequest({TRUE})
    /\ UNCHANGED RemoteUrl

RevertClickedShown ==
    /\ CanExecuteAlways
    /\ RevertRequest({TRUE})
    /\ UNCHANGED RemoteUrl

NextShown ==
    \/ EditorLoadPackage
    \/ PushClickedShown
    \/ SyncClickedShown
    \/ RevertClickedShown
    \/ RefreshClickedShown
    \/ OnSourceControlOperationComplete
    \/ ReturnToEditor
    \/ RemoteChanged

SpecShown == Init /\ [][NextShown]_vars

\* ---------------------------------------------------------------------
\* The working-set resolution and the detachment on their own: the diff and
\* status output (Sync) or the files on disk (Revert) and the residency of the
\* packages are drawn at the start, and one step applies lines 281-319 of
\* SyncClicked or line 409 of RevertClicked to them.
ResolveInput(d, s, disk) ==
    [fn |-> "none", diff |-> d, status |-> s, disk |-> disk,
     changed |-> <<>>, names |-> <<>>]

InitResolve ==
    /\ OperationInProgressNotification = FALSE
    /\ bStashMadeBeforeSync = InitStashFlag
    /\ PackagesToReload = <<>>
    /\ pkgState \in [Packages -> {"unloaded", "loaded", "detached"}]
    /\ outstanding = [k \in OperationKinds |-> 0]
    /\ RemoteUrl \in RemoteUrls
    /\ call \in {ResolveInput(d, s, disk) : d \in RunCommandResults(DiffOutputs),
                                            s \in RunCommandResults(StatusOutputs),
                                            disk \in SUBSET Packages}
    /\ events = <<>>

SyncResolveAndUnlink ==
    LET changed == ChangedFiles(call.diff.out, call.status.out)
        names == PackagesToUnlink(changed)
        unlink == UnlinkPackages(names, pkgState)
    IN  /\ call.fn = "none"
        /\ call' = [call EXCEPT !.fn = "SyncClicked", !.changed = changed,
                                !.names = names]
        /\ events' = <<"Diff", "Status", "UnlinkPackages">>
        /\ PackagesToReload' = unlink.LoadedPackages
        /\ pkgState' = unlink.state
        /\ UNCHANGED <<OperationInProgressNotification, bStashMadeBeforeSync, outstanding,
                       RemoteUrl>>

RevertListAndUnlink ==
    LET names == ListAllPackages(call.disk)
        unlink == UnlinkPackages(names, pkgState)
    IN  /\ call.fn = "none"
        /\ call' = [call EXCEPT !.fn = "RevertClicked", !.names = names]
        /\ events' = <<"UnlinkPackages">>
        /\ PackagesToReload' = unlink.LoadedPackages
        /\ pkgState' = unlink.state
        /\ UNCHANGED <<OperationInProgressNotification, bStashMadeBeforeSync, outstanding,
                       RemoteUrl>>

NextResolve ==
    \/ SyncResolveAndUnlink
    \/ RevertListAndUnlink

SpecResolve == InitResolve /\ [][NextResolve]_vars

\* ===================================================================
\* Properties
\* ===================================================================
RequestFns == {"PushClicked", "SyncClicked", "RevertClicked", "RefreshClicked"}

WasRejected == events = <<"Warn_InProgress">>

Completed(names) ==
    call.fn = "OnSourceControlOperationComplete" /\ call.op.name \in names

StashCommands == {"StashSave_Ok", "StashSave_Fail"}
PopCommands == {"StashPop_Ok", "StashPop_Fail"}
DispatchEvents == {"Execute_Ok", "Execute_Fail"}
GitCommands == {"Diff", "Status", "StashStatus"} \cup StashCommands \cup PopCommands

\* C1: a Push, Sync, Revert or Refresh request that arrives while the progress
\* notification handle is valid is rejected: it only reports "operation already
\* in progress" (no prompt, no command, no dispatch) and leaves the handle, the
\* stash flag, the pending reload set, every package's loaded/detached status
\* and the operations in flight unchanged.
C1_BusyRequestRejected ==
    [][(OperationInProgressNotification /\ call'.fn \in RequestFns)
         => /\ events' = <<"Warn_InProgress">>
            /\ UNCHANGED <<OperationInProgressNotification, bStashMadeBeforeSync,
                           PackagesToReload, pkgState, outstanding>>]_vars

\* a request was rejected while a Sync or Revert held detached packages
C1_Witness ==
    /\ OperationInProgressNotification
    /\ call.fn \in RequestFns
    /\ WasRejected
    /\ PackagesToReload # <<>>
    /\ Detached # {}

\* C2: at most one dispatched operation is in flight at any time.
C2_AtMostOneOutstanding == NumOutstanding <= 1

\* C3: a stash pop issued by the completion callback of a Sync or Revert pops a
\* stash that was created for that very operation (so no stash is popped for an
\* operation that made none, and none is popped a second time).
C3_PopOnlyOwnStash ==
    (Completed({"Sync", "Revert"}) /\ AnyOf(events, PopCommands)) => call.op.stashed

\* C4: the stash flag is false once the completion callback of a Sync or Revert
\* has finished.
C4_FlagClearedByCompletion ==
    Completed({"Sync", "Revert"}) => ~bStashMadeBeforeSync

\* C5: after a Sync request has run, the stash flag is true only if that Sync
\* issued a stash save that succeeded; a Sync that issued no stash command
\* leaves the flag false.
C5_FlagOnlyIfStashedThisSync ==
    (call.fn = "SyncClicked" /\ ~WasRejected)
        => /\ bStashMadeBeforeSync => AnyOf(events, {"StashSave_Ok"})
           /\ ~AnyOf(events, StashCommands) => ~bStashMadeBeforeSync

\* C6: whenever the system is Idle again (no progress notification, no
\* operation in flight) no package is left detached.
C6_NoDetachedWhenIdle ==
    (~OperationInProgressNotification /\ NumOutstanding = 0) => Detached = {}

\* C7: a Sync whose stash prompt is declined issues no stash command and no
\* pull, shows no progress notification (the handle stays invalid), leaves the
\* stash flag and the operations in flight as they were, and reports the
\* "stash before sync" warning.
C7_DeclinedStashAbortsSync ==
    [][(call'.fn = "SyncClicked" /\ AnyOf(events', {"StashPrompt_Cancel"}))
         => /\ ~AnyOf(events', StashCommands \cup DispatchEvents \cup {"DisplayInProgress"})
            /\ AnyOf(events', {"Warn_StashBeforeSync"})
            /\ ~OperationInProgressNotification'
            /\ UNCHANGED <<bStashMadeBeforeSync, outstanding>>]_vars

\* a Sync was aborted by declining the stash prompt
C7_Witness ==
    /\ call.fn = "SyncClicked"
    /\ AnyOf(events, {"StashPrompt_Cancel"})
    /\ AnyOf(events, {"Warn_StashBeforeSync"})

\* C8: an accepted Revert request starts with the yes/no prompt, before any
\* unlink or dispatch; answering no does nothing else: no package changes
\* status, nothing is dispatched, and the handle, stash flag and pending reload
\* set are unchanged.
C8_RevertPromptsFirst ==
    [][(call'.fn = "RevertClicked" /\ events' # <<"Warn_InProgress">>)
         => /\ Len(events') >= 1
            /\ events'[1] \in {"RevertPrompt_Ok", "RevertPrompt_Cancel"}
            /\ events'[1] = "RevertPrompt_Cancel"
                 => /\ Len(events') = 1
                    /\ UNCHANGED <<OperationInProgressNotification, bStashMadeBeforeSync,
                                   PackagesToReload, pkgState, outstanding>>]_vars

\* a Revert was declined while loaded packages and a pending set existed
C8_Witness ==
    /\ call.fn = "RevertClicked"
    /\ events = <<"RevertPrompt_Cancel">>
    /\ Resident # {}

C10_PendingSetEmptyAfterReload ==
    AnyOf(events, {"ReloadPackages"}) => PackagesToReload = <<>>

\* C11: a handle is passed to reload or unload at most once: when the completion
\* callback of a Sync or Revert reconciles the pending reload set, no handle in
\* it has already been reloaded or unloaded by an earlier reconciliation.
C11_HandlePassedOnce ==
    [][(call'.fn = "OnSourceControlOperationComplete"
          /\ call'.op.name \in {"Sync", "Revert"})
         => \A i \in 1..Len(PackagesToReload) : PackagesToReload[i].live]_vars

\* C12: ReloadPackages splits the handles it is given by whether the package
\* file exists when it runs: the handles whose file is absent are unloaded and
\* not reloaded, the handles whose file is present are reloaded and not
\* unloaded, every handle is in exactly one group, and a package whose handle
\* was live ends up unloaded in the first case and loaded in the second.
C12_ReconcilePartition ==
    [][AnyOf(events', {"ReloadPackages"})
         => LET bCallback == call'.fn = "OnSourceControlOperationComplete"
                pending == IF bCallback THEN {x.pkg : x \in Range(PackagesToReload)}
                           ELSE call'.captured
                live == IF bCallback
                        THEN {x.pkg : x \in {y \in Range(PackagesToReload) : y.live}}
                        ELSE call'.captured
            IN  /\ call'.unloaded = pending \cap call'.absent
                /\ call'.reloaded = pending \ call'.absent
                /\ call'.reloaded \cap call'.unloaded = {}
                /\ call'.reloaded \cup call'.unloaded = pending
                /\ \A p \in live :
                      pkgState'[p] = (IF p \in call'.absent THEN "unloaded" ELSE "loaded")]_vars

\* a Revert with a and b detached completed after b's file was deleted: a was
\* reloaded, b was unloaded
C12_Witness ==
    /\ Completed({"Revert"})
    /\ call.reloaded = {"a"}
    /\ call.unloaded = {"b"}
    /\ call.absent = {"b"}
    /\ pkgState["a"] = "loaded"
    /\ pkgState["b"] = "unloaded"

\* the packages whose handles are in the pending reload set
PendingPackages == {x.pkg : x \in Range(PackagesToReload)}

\* C13 as stated: the packages a Sync detaches before the pull are exactly the
\* packages of its resolved changed-set, no more and no less.
C13_DetachedEqualsResolved ==
    call.fn = "SyncClicked" => PendingPackages = Range(call.names)

\* C13: the packages a Sync detaches before the pull are exactly the packages
\* of its resolved changed-set that are resident in memory; a resolved package
\* that is not loaded is skipped, and nothing outside the resolved set is
\* detached by the Sync.
C13_DetachedEqualsResidentResolved ==
    [][call'.fn = "SyncClicked"
         => /\ PendingPackages' = Range(call'.names) \cap Resident
            /\ \A p \in Packages :
                  pkgState'[p] = (IF p \in Range(call'.names) \cap Resident
                                  THEN "detached" ELSE pkgState[p])]_vars

\* a Sync resolved a and b, of which only a was loaded: a alone was detached
C13_Witness ==
    /\ call.fn = "SyncClicked"
    /\ Range(call.names) = {"a", "b"}
    /\ PendingPackages = {"a"}
    /\ pkgState = [p \in Packages |-> IF p = "a" THEN "detached" ELSE "unloaded"]

\* C14 as stated: the packages a Revert detaches are all the packages under
\* the content root.
C14_DetachedEqualsContentRoot ==
    call.fn = "RevertClicked" => PendingPackages = call.disk

\* C14: the packages a Revert detaches are the packages under the content
\* root that are resident in memory; a package file whose package is not
\* loaded is skipped.
C14_DetachedEqualsResidentContentRoot ==
    [][call'.fn = "RevertClicked"
         => /\ PendingPackages' = call.disk \cap Resident
            /\ \A p \in Packages :
                  pkgState'[p] = (IF p \in call.disk \cap Resident
                                  THEN "detached" ELSE pkgState[p])]_vars

\* a Revert found a and b on disk, both loaded, and detached both
C14_Witness ==
    /\ call.fn = "RevertClicked"
    /\ call.disk = {"a", "b"}
    /\ PendingPackages = {"a", "b"}
    /\ Detached = {"a", "b"}

\* the status markers of an uncommitted modification or addition of a tracked
\* file, staged ("M ") or not (" M", " A")
ModifyOrAddMarkers == {" M", " A", "M "}

\* C15: the changed-set a Sync computes is the union of the paths of the diff
\* against the upstream branch and the paths of the status lines of a local
\* modification or addition, whichever column carries the marker; deleted
\* files contribute nothing.
C15_ChangedSetIsDiffUnionModified ==
    call.fn = "SyncClicked"
        => Range(call.changed) =
              Range(call.diff.out)
                 \cup {l.path : l \in {x \in Range(call.status.out) :
                                          x.marker \in ModifyOrAddMarkers}}

\* C16: when the diff or the status command of the working-set resolution
\* fails, the changed-set is empty and no package is detached, and the Sync
\* goes on past the resolution.
C16_FailedCommandGivesEmptySet ==
    (call.fn = "SyncClicked" /\ (~call.diff.ok \/ ~call.status.ok))
        => /\ call.changed = <<>>
           /\ PackagesToReload = <<>>
           /\ AnyOf(events, {"UnlinkPackages"})

\* C17: when Provider.Execute does not return Succeeded, the request shows the
\* failure notification and no progress notification, the handle stays invalid
\* (so the next request is accepted) and nothing is added to the operations in
\* flight; a Sync or Revert also runs ReloadPackages in the same request on the
\* packages it has just detached, none of which stays detached; a Push or
\* Refresh does nothing else.
C17_DispatchFailure ==
    [][(call'.fn \in RequestFns /\ AnyOf(events', {"Execute_Fail"}))
         => /\ AnyOf(events', {"FailureNotification"})
            /\ ~AnyOf(events', {"Execute_Ok", "DisplayInProgress"})
            /\ ~OperationInProgressNotification'
            /\ ~RequestRejected'
            /\ UNCHANGED outstanding
            /\ IF call'.fn \in {"SyncClicked", "RevertClicked"}
               THEN /\ AnyOf(events', {"ReloadPackages"})
                    /\ call'.reloaded \cup call'.unloaded = call'.captured
                    /\ \A p \in call'.captured : pkgState'[p] # "detached"
                    /\ \A i \in 1..Len(PackagesToReload') : ~PackagesToReload'[i].live
               ELSE /\ events' = <<"Execute_Fail", "FailureNotification">>
                    /\ UNCHANGED <<bStashMadeBeforeSync, PackagesToReload, pkgState>>]_vars

\* the dispatch of a Sync failed after it had detached a package, and the
\* package was reloaded in the same request
C17_Witness ==
    /\ call.fn = "SyncClicked"
    /\ AnyOf(events, {"Execute_Fail"})
    /\ call.captured # {}
    /\ call.reloaded = call.captured
    /\ \A p \in call.captured : pkgState[p] = "loaded"
    /\ ~OperationInProgressNotification

\* C18: a Push or Refresh request, and the completion callback of a Push or
\* Refresh, shows no save or stash prompt, runs no git command (no stash save,
\* no stash pop), runs neither UnlinkPackages nor ReloadPackages, and leaves the
\* stash flag, the pending reload set and every package's loaded/detached
\* status as they were.
C18_PushRefreshFrame ==
    [][(\/ call'.fn \in {"PushClicked", "RefreshClicked"}
        \/ /\ call'.fn = "OnSourceControlOperationComplete"
           /\ call'.op.name \in {"Push", "Refresh"})
         => /\ ~AnyOf(events', GitCommands
                                 \cup {"SavePrompt", "StashPrompt_Ok", "StashPrompt_Cancel",
                                       "UnlinkPackages", "ReloadPackages"})
            /\ call'.captured = {}
            /\ call'.reloaded = {}
            /\ call'.unloaded = {}
            /\ UNCHANGED <<bStashMadeBeforeSync, PackagesToReload, pkgState>>]_vars

\* a Push or Refresh completed while the stash flag was still set and the
\* pending reload set still held the handles of an earlier Sync or Revert
C18_Witness ==
    /\ Completed({"Push", "Refresh"})
    /\ bStashMadeBeforeSync
    /\ PackagesToReload # <<>>

\* C19: in a Sync that reaches its stash step the stash prompt is shown if and
\* only if the status command succeeded and returned at least one line; when
\* it succeeded and returned none, no prompt is shown, no stash command is run
\* and the next thing the Sync does is dispatch the pull.
C19_PromptIffModified ==
    (call.fn = "SyncClicked" /\ AnyOf(events, {"StashStatus"}))
        => /\ AnyOf(events, {"StashPrompt_Ok", "StashPrompt_Cancel"})
                <=> (call.bStatusOk /\ call.bModified)
           /\ (call.bStatusOk /\ ~call.bModified)
                => /\ ~AnyOf(events, StashCommands)
                   /\ \E i \in 1..(Len(events) - 1) :
                         /\ events[i] = "StashStatus"
                         /\ events[i + 1] \in DispatchEvents

\* a Sync found a clean working tree, showed no prompt and was dispatched
C19_Witness ==
    /\ call.fn = "SyncClicked"
    /\ call.bStatusOk
    /\ ~call.bModified
    /\ ~AnyOf(events, {"SavePrompt", "StashPrompt_Ok", "StashPrompt_Cancel"})
    /\ AnyOf(events, {"Execute_Ok"})

\* C20: a Sync whose stash prompt is accepted and whose stash command fails
\* reports the "stashing failed" warning, leaves the stash flag false and goes
\* on to dispatch the pull; when that Sync completes, no stash pop is run.
C20_FailedStashNoPop ==
    /\ (call.fn = "SyncClicked" /\ AnyOf(events, {"StashSave_Fail"}))
          => /\ AnyOf(events, {"Warn_StashFailed"})
             /\ ~bStashMadeBeforeSync
             /\ AnyOf(events, DispatchEvents)
             /\ ~AnyOf(events, {"Warn_StashBeforeSync"})
    /\ (Completed({"Sync"}) /\ call.op.bStashFailed)
          => ~AnyOf(events, PopCommands)

\* C21: the Push and Sync handlers run only while the provider's remote URL is
\* not empty; the Revert and Refresh handlers can run whatever the remote URL
\* is, also when it is empty.
C21_RemoteUrlGating ==
    /\ [][call'.fn \in {"PushClicked", "SyncClicked"} => RemoteUrl # ""]_vars
    /\ [](InEditorLoop => (ENABLED RevertClicked /\ ENABLED RefreshClicked))

\* a Revert ran in a repository without a remote
C21_Witness ==
    /\ call.fn = "RevertClicked"
    /\ RemoteUrl = ""
    /\ AnyOf(events, {"Execute_Ok"})

\* C22: the completion callback of a Sync or Revert does its steps in this
\* order: the progress notification is removed, then the stash is popped
\* (exactly when the stash flag is set), then the pending reload set is
\* reconciled, then the result notification is shown; a stash pop that fails
\* is reported as a warning and the reconciliation still follows it.
C22_CompletionOrder ==
    [][(call'.fn = "OnSourceControlOperationComplete"
           /\ call'.op.name \in {"Sync", "Revert"})
        => /\ ~OperationInProgressNotification'
           /\ \E remove \in {IF OperationInProgressNotification
                              THEN <<"RemoveInProgress">> ELSE <<>>},
                 pop \in {<<>>, <<"StashPop_Ok">>,
                          <<"StashPop_Fail", "Warn_UnstashFailed">>},
                 result \in {"SuccessNotification", "FailureNotification"} :
                 /\ events' = remove \o pop \o <<"ReloadPackages", result>>
                 /\ (pop # <<>>) <=> bStashMadeBeforeSync]_vars

\* a Sync completed, its stash pop failed, and detached packages were still
\* reloaded before the result was shown
C22_Witness ==
    /\ Completed({"Sync"})
    /\ events = <<"RemoveInProgress", "StashPop_Fail", "Warn_UnstashFailed",
                  "ReloadPackages", "SuccessNotification">>
    /\ call.reloaded # {}

\* what the stash step of a Sync can do
StashDecisionEvents ==
    {"StashStatus", "StashPrompt_Ok", "StashPrompt_Cancel", "Warn_StashFailed"}
        \cup StashCommands

\* C23: a Sync does its steps in the order save-dirty, stash-if-needed,
\* detach-affected, dispatch: whenever a Sync detaches packages, the stash
\* decision (status looked at, prompt answered when one was needed, stash
\* command run when it was accepted) has been made before the detach, and the
\* dispatch of the pull comes after it.
C23_StashDecidedBeforeDetach ==
    (call.fn = "SyncClicked" /\ call.captured # {})
        => \A i \in 1..Len(events) :
              events[i] = "UnlinkPackages"
                 => /\ \A j \in 1..Len(events) :
                         /\ events[j] = "SavePrompt" => j < i
                         /\ events[j] \in StashDecisionEvents => j < i
                         /\ events[j] \in DispatchEvents => i < j
                    /\ \E j \in 1..(i - 1) : events[j] = "StashStatus"

\* C24: every stash that a Sync created is popped, or a pop of it is attempted,
\* before the system is Idle again: the completion callback of a Sync that
\* made a stash runs a stash pop, and a Sync that made a stash and then failed
\* to dispatch the pull runs a stash pop before it returns.
C24_StashPoppedBeforeIdle ==
    /\ (Completed({"Sync"}) /\ call.op.stashed)
          => AnyOf(events, PopCommands)
    /\ (/\ call.fn = "SyncClicked"
        /\ AnyOf(events, {"StashSave_Ok"})
        /\ AnyOf(events, {"Execute_Fail"})
        /\ ~OperationInProgressNotification)
          => AnyOf(events, PopCommands)

====
